---- MODULE Spec2Model ----
(***************************************************************************)
(* Model of generate_synthetic_obs.py: the synthetic observation generator *)
(* of the CLIMBER-X OSSE experiment.                                       *)
(*                                                                         *)
(* Longitudes and latitudes are whole degrees.  Field values, noise and    *)
(* errors are fixed-point numbers with two decimals (Fx(1) is 1.0).  The   *)
(* process-wide generator of numpy is a small congruential generator: a    *)
(* state, a seeding function, and one state step per number drawn.         *)
(*                                                                         *)
(* Spec is one run of generate_synthetic_observations, statement by        *)
(* statement, file operations failing at any point.  SpecLoc, SpecGrid and *)
(* SpecNoise call generate_random_locations, find_nearest_grid_point and   *)
(* add_observation_noise on every input of bounded sets.                   *)
(* SpecDiag is one call of load_osse_diagnostics of                        *)
(* evaluate_osse_results.py on every file of a bounded number of lines.    *)
(***************************************************************************)
EXTENDS Integers, Sequences, FiniteSets, TLC

VARIABLES
    rng,      \* state of the process-wide generator np.random
    pc,       \* position of the running function
    args,     \* arguments of the function under call
    ret,      \* what the calls returned so far
    year,     \* loop variable of generate_synthetic_observations
    loc,      \* its local variables
    files,    \* the output directory
    snap,     \* the output directory when the current year started
    err       \* the exception that ended the run, "none" while it runs

vars == <<rng, pc, args, ret, year, loc, files, snap, err>>

----------------------------------------------------------------------------
(* Bounds *)

MaxObs == 2        \* largest n_obs_tas, n_obs_pr
MaxSeed == 7       \* largest seed handed to generate_random_locations
RngMod == 16       \* number of generator states
QLonMax == 40      \* query longitudes are -10*QLonMax .. 10*QLonMax
QLatMax == 18      \* query latitudes are -5*QLatMax .. 5*QLatMax
MaxStart == 1      \* largest start_year
MaxYears == 2      \* largest n_years

----------------------------------------------------------------------------
(* Numbers *)

Abs(x) == IF x < 0 THEN -x ELSE x

Fx(n) == n * 100

FxMul(a, b) == (a * b) \div Fx(1)

Tenth == Fx(1) \div 10

Range(s) == {s[k] : k \in DOMAIN s}

SeqMin(s) == CHOOSE m \in Range(s) : \A x \in Range(s) : m <= x

SeqMax(s) == CHOOSE m \in Range(s) : \A x \in Range(s) : m >= x

----------------------------------------------------------------------------
(* The process-wide generator *)

RngStates == 0 .. (RngMod - 1)

RngSeed(s) == s % RngMod

RngNext(st) == (5 * st + 3) % RngMod

RECURSIVE RngAfter(_, _)
RngAfter(st, k) == IF k = 0 THEN st ELSE RngAfter(RngNext(st), k - 1)

\* lo + (hi - lo) * u with u in [0, 1) read off the generator state
UniformOf(lo, hi, st) == lo + ((hi - lo) * st) \div RngMod

\* np.random.uniform(lo, hi, n): n numbers, one state step each
uniform(lo, hi, n, st) == [k \in 1 .. n |-> UniformOf(lo, hi, RngAfter(st, k))]

\* a standard normal number read off the generator state: -2.0 .. 2.0
StdNormalOf(st) == Fx((st % 5) - 2)

\* np.random.normal(0, scale) with a scalar scale: ONE number
normal_scalar(scale, st) == FxMul(scale, StdNormalOf(RngAfter(st, 1)))

\* np.random.normal(0, scale) with an array scale: one number per entry
normal_array(scale, st) ==
    [k \in 1 .. Len(scale) |-> FxMul(scale[k], StdNormalOf(RngAfter(st, k)))]

----------------------------------------------------------------------------
(* generate_random_locations *)

NoSeed == [given |-> FALSE, val |-> 0]

SomeSeed(s) == [given |-> TRUE, val |-> s]

\* a faulty variant: "if seed:" instead of "if seed is not None:"
generate_random_locations_truthy(n_obs, lon_range, lat_range, seed, st) ==
    IF seed.given /\ seed.val < 0
    THEN [raised |-> "ValueError", lons |-> <<>>, lats |-> <<>>, rng |-> st]
    ELSE LET st0 == IF seed.given /\ seed.val # 0 THEN RngSeed(seed.val) ELSE st
             lons == uniform(lon_range[1], lon_range[2], n_obs, st0)
             st1 == RngAfter(st0, n_obs)
             lats == uniform(lat_range[1], lat_range[2], n_obs, st1)
         IN  [raised |-> "none", lons |-> lons, lats |-> lats,
              rng |-> RngAfter(st1, n_obs)]

\* a faulty variant: the seed is checked but the generator is not reseeded
generate_random_locations_noseed(n_obs, lon_range, lat_range, seed, st) ==
    IF seed.given /\ seed.val < 0
    THEN [raised |-> "ValueError", lons |-> <<>>, lats |-> <<>>, rng |-> st]
    ELSE LET lons == uniform(lon_range[1], lon_range[2], n_obs, st)
             st1 == RngAfter(st, n_obs)
             lats == uniform(lat_range[1], lat_range[2], n_obs, st1)
         IN  [raised |-> "none", lons |-> lons, lats |-> lats,
              rng |-> RngAfter(st1, n_obs)]

\* np.random.seed raises ValueError on a negative seed
generate_random_locations(n_obs, lon_range, lat_range, seed, st) ==
    IF seed.given /\ seed.val < 0
    THEN [raised |-> "ValueError", lons |-> <<>>, lats |-> <<>>, rng |-> st]
    ELSE LET st0 == IF seed.given THEN RngSeed(seed.val) ELSE st
             lons == uniform(lon_range[1], lon_range[2], n_obs, st0)
             st1 == RngAfter(st0, n_obs)
             lats == uniform(lat_range[1], lat_range[2], n_obs, st1)
         IN  [raised |-> "none", lons |-> lons, lats |-> lats,
              rng |-> RngAfter(st1, n_obs)]

----------------------------------------------------------------------------
(* find_nearest_grid_point *)

\* np.argmin(np.abs(axis - x)): scan left to right, keep the first minimum
RECURSIVE argmin_scan(_, _, _, _)
argmin_scan(axis, x, k, best) ==
    IF k > Len(axis) THEN best
    ELSE IF Abs(axis[k] - x) < Abs(axis[best] - x)
         THEN argmin_scan(axis, x, k + 1, k)
         ELSE argmin_scan(axis, x, k + 1, best)

\* a faulty variant: the last minimum is kept on ties
argmin_abs_last(axis, x) ==
    CHOOSE i \in DOMAIN axis :
        /\ \A k \in DOMAIN axis : Abs(axis[i] - x) <= Abs(axis[k] - x)
        /\ \A k \in DOMAIN axis : k > i => Abs(axis[i] - x) < Abs(axis[k] - x)

argmin_abs(axis, x) == argmin_scan(axis, x, 2, 1)

\* a faulty variant: the query longitude is not wrapped
find_nearest_grid_point_nowrap(obs_lon, obs_lat, model_lon, model_lat) ==
    <<argmin_abs(model_lon, obs_lon), argmin_abs(model_lat, obs_lat)>>

\* indices are 1-based here: numpy's index i is i + 1
find_nearest_grid_point(obs_lon, obs_lat, model_lon, model_lat) ==
    LET lon == IF obs_lon < 0 THEN obs_lon + 360 ELSE obs_lon
    IN  <<argmin_abs(model_lon, lon), argmin_abs(model_lat, obs_lat)>>

----------------------------------------------------------------------------
(* The nature run: nature_data['tas'], nature_data['pr'] and the axes *)

\* the value stored in the field of a variable at an index tuple: <<t, j, i>>
\* for a rank-3 field, <<t, level, j, i>> for a rank-4 field; every cell of
\* every field holds a different value
FieldValue(variable, idx) ==
    LET base == IF variable = "tas" THEN 0 ELSE 5000
    IN  IF Len(idx) = 3
        THEN Fx(base + 100 * idx[1] + 10 * idx[2] + idx[3])
        ELSE Fx(base + 1000 * (idx[2] + 1) + 100 * idx[1] + 10 * idx[3] + idx[4])

ValueError == "ValueError"

IndexError == "IndexError"

OSError == "OSError"

\* a faulty variant: var_data[time_idx, i, j] and level 1
sample_cell_swapped(var_data, time_idx, i, j) ==
    IF var_data.rank = 3
    THEN IF time_idx < var_data.ntime
         THEN [raised |-> "none", value |-> FieldValue(var_data.name, <<time_idx, i, j>>)]
         ELSE [raised |-> IndexError, value |-> 0]
    ELSE IF var_data.rank = 4
    THEN IF time_idx < var_data.ntime
         THEN [raised |-> "none", value |-> FieldValue(var_data.name, <<time_idx, 1, j, i>>)]
         ELSE [raised |-> IndexError, value |-> 0]
    ELSE [raised |-> ValueError, value |-> 0]

\* the body of the loop of sample_nature_run after the grid lookup
sample_cell(var_data, time_idx, i, j) ==
    IF var_data.rank = 3
    THEN IF time_idx < var_data.ntime
         THEN [raised |-> "none", value |-> FieldValue(var_data.name, <<time_idx, j, i>>)]
         ELSE [raised |-> IndexError, value |-> 0]
    ELSE IF var_data.rank = 4
    THEN IF time_idx < var_data.ntime
         THEN [raised |-> "none", value |-> FieldValue(var_data.name, <<time_idx, 0, j, i>>)]
         ELSE [raised |-> IndexError, value |-> 0]
    ELSE [raised |-> ValueError, value |-> 0]

RECURSIVE sample_loop(_, _, _, _, _, _, _)
sample_loop(nature_data, obs_lons, obs_lats, variable, time_idx, k, sampled_values) ==
    IF k > Len(obs_lons) \/ k > Len(obs_lats)
    THEN [raised |-> "none", values |-> sampled_values]
    ELSE LET ij == find_nearest_grid_point(obs_lons[k], obs_lats[k],
                                           nature_data.lon, nature_data.lat)
             cell == sample_cell(nature_data[variable], time_idx, ij[1], ij[2])
         IN  IF cell.raised # "none"
             THEN [raised |-> cell.raised, values |-> <<>>]
             ELSE sample_loop(nature_data, obs_lons, obs_lats, variable, time_idx,
                              k + 1, Append(sampled_values, cell.value))

sample_nature_run(nature_data, obs_lons, obs_lats, variable, time_idx) ==
    sample_loop(nature_data, obs_lons, obs_lats, variable, time_idx, 1, <<>>)

----------------------------------------------------------------------------
(* add_observation_noise *)

\* a faulty variant: 0.1 * values, the magnitude is not taken
pr_noise_std_signed(values) == [k \in DOMAIN values |-> FxMul(Tenth, values[k])]

pr_noise_std(values) == [k \in DOMAIN values |-> FxMul(Tenth, Abs(values[k]))]

\* a faulty variant: the noise is drawn before the tag is looked at, so a
\* call with an unknown tag has moved the generator when it raises
add_observation_noise_draw_first(values, variable, st) ==
    LET tas_std == Fx(1)
        pr_std == pr_noise_std(values)
    IN  IF variable = "tas"
        THEN [raised |-> "none",
              noisy_values |-> [k \in DOMAIN values |->
                                    values[k] + normal_scalar(tas_std, st)],
              errors |-> [k \in DOMAIN values |-> tas_std], draws |-> 1,
              rng |-> RngAfter(st, 1)]
        ELSE IF variable = "pr"
        THEN [raised |-> "none",
              noisy_values |-> [k \in DOMAIN values |->
                                    values[k] + normal_array(pr_std, st)[k]],
              errors |-> pr_std, draws |-> Len(values),
              rng |-> RngAfter(st, Len(values))]
        ELSE [raised |-> ValueError, noisy_values |-> <<>>, errors |-> <<>>,
              draws |-> 1, rng |-> RngAfter(st, 1)]

\* draws counts the numbers taken from the generator
add_observation_noise(values, variable, st) ==
    IF variable = "tas"
    THEN LET noise_std == Fx(1)
             errors == [k \in DOMAIN values |-> noise_std]
             noise == normal_scalar(noise_std, st)
         IN  [raised |-> "none",
              noisy_values |-> [k \in DOMAIN values |-> values[k] + noise],
              errors |-> errors, draws |-> 1, rng |-> RngAfter(st, 1)]
    ELSE IF variable = "pr"
    THEN LET noise_std == pr_noise_std(values)
             errors == noise_std
             noise == normal_array(noise_std, st)
         IN  [raised |-> "none",
              noisy_values |-> [k \in DOMAIN values |-> values[k] + noise[k]],
              errors |-> errors, draws |-> Len(values),
              rng |-> RngAfter(st, Len(values))]
    ELSE [raised |-> ValueError, noisy_values |-> <<>>, errors |-> <<>>,
          draws |-> 0, rng |-> st]

----------------------------------------------------------------------------
(* Inputs *)

\* longitude axes in the 0..360 and in the -180..180 convention
LonAxes == {<<0, 180>>, <<0, 90, 180, 270>>, <<-180, -90, 0, 90>>}

\* latitude axes, south to north and north to south
LatAxes == {<<-45, 45>>, <<60, 0, -60>>}

QueryLons == {10 * k : k \in (0 - QLonMax) .. QLonMax}

QueryLats == {5 * k : k \in (0 - QLatMax) .. QLatMax}

Seeds == {NoSeed} \cup {SomeSeed(s) : s \in 0 .. MaxSeed}

Tags == {"tas", "pr", "sst"}

\* true values handed to the noise model: -20.0, 0.0, 3.0, 10.0
TrueValues == {Fx(0 - 20), 0, Fx(3), Fx(10)}

SeqsUpTo(S, n) == UNION {[1 .. k -> S] : k \in 0 .. n}

\* the values of the variables a specification does not use
NoRun == /\ year = 0
         /\ loc = <<>>
         /\ files = <<>>
         /\ snap = <<>>
         /\ err = "none"

----------------------------------------------------------------------------
(* Two calls of generate_random_locations with the same arguments, the     *)
(* generator being used by other code before and between them              *)

LocInit ==
    /\ pc = "call1"
    /\ rng \in RngStates
    /\ args \in [n_obs : 0 .. MaxObs,
                 lon_range : {<<SeqMin(a), SeqMax(a)>> : a \in LonAxes},
                 lat_range : {<<SeqMin(a), SeqMax(a)>> : a \in LatAxes},
                 seed : Seeds]
    /\ ret = <<>>
    /\ NoRun

CallLocations ==
    /\ pc \in {"call1", "call2"}
    /\ LET r == generate_random_locations(args.n_obs, args.lon_range,
                                          args.lat_range, args.seed, rng)
       IN  /\ ret' = Append(ret, [lons |-> r.lons, lats |-> r.lats, before |-> rng])
           /\ rng' = r.rng
    /\ pc' = IF pc = "call1" THEN "call2" ELSE "done"
    /\ UNCHANGED <<args, year, loc, files, snap, err>>

\* any other code drawing a number from np.random between the two calls
OtherDraw ==
    /\ pc = "call2"
    /\ rng' = RngNext(rng)
    /\ UNCHANGED <<pc, args, ret, year, loc, files, snap, err>>

LocNext == CallLocations \/ OtherDraw

SpecLoc == LocInit /\ [][LocNext]_vars

----------------------------------------------------------------------------
(* One call of find_nearest_grid_point *)

GridInit ==
    /\ pc = "call"
    /\ rng = 0
    /\ args \in [obs_lon : QueryLons, obs_lat : QueryLats,
                 model_lon : LonAxes, model_lat : LatAxes]
    /\ ret = <<>>
    /\ NoRun

CallNearest ==
    /\ pc = "call"
    /\ ret' = find_nearest_grid_point(args.obs_lon, args.obs_lat,
                                      args.model_lon, args.model_lat)
    /\ pc' = "done"
    /\ UNCHANGED <<rng, args, year, loc, files, snap, err>>

GridNext == CallNearest

SpecGrid == GridInit /\ [][GridNext]_vars

----------------------------------------------------------------------------
(* One call of add_observation_noise *)

NoiseInit ==
    /\ pc = "call"
    /\ rng \in RngStates
    /\ args \in [values : SeqsUpTo(TrueValues, MaxObs), variable : Tags, before : {0}]
    /\ ret = <<>>
    /\ NoRun

CallNoise ==
    /\ pc = "call"
    /\ LET r == add_observation_noise(args.values, args.variable, rng)
       IN  /\ ret' = r
           /\ rng' = r.rng
    /\ args' = [args EXCEPT !.before = rng]
    /\ pc' = IF ret'.raised = "none" THEN "done" ELSE "raised"
    /\ UNCHANGED <<year, loc, files, snap, err>>

NoiseNext == CallNoise

SpecNoise == NoiseInit /\ [][NoiseNext]_vars

----------------------------------------------------------------------------
(* load_osse_diagnostics of evaluate_osse_results.py: one call, line by    *)
(* line.  A line is the list of its whitespace-separated fields, which is  *)
(* what line.strip() and line.split() leave of it.                         *)

MaxLines == 3      \* most lines of final_diagnostics.txt

\* the line 'Year  RMS_TAS  RMS_PR  ESS' that starts the data section
HeaderLine == <<"Year", "RMS_TAS", "RMS_PR", "ESS">>

RuleLine == <<"----">>

BlankLine == <<>>

\* fields: an integer literal, a decimal literal, and text that is no number
Fields == {"3", "0.5", "n/a"}

\* int(s) and float(s) return a number or raise ValueError
int_raises(s) == s # "3"

int(s) == 3

float_raises(s) == s \notin {"3", "0.5"}

float(s) == IF s = "3" THEN Fx(3) ELSE Fx(1) \div 2

\* data lines of four fields, every column well-formed or not, one line of
\* three fields and one of five
FieldLines ==
    {<<a, b, c, d>> : a \in Fields, b \in {"0.5", "n/a"}, c \in {"0.5", "n/a"},
                      d \in {"3", "n/a"}}
        \cup {<<"3", "0.5", "0.5">>, <<"3", "0.5", "0.5", "3", "n/a">>}

DiagLines == {HeaderLine, RuleLine, BlankLine} \cup FieldLines

EnsembleSizes == {10}

\* 'Year  RMS_TAS  RMS_PR  ESS' in line
has_header(line) == line = HeaderLine

\* line.startswith('---')
starts_with_rule(line) == line # <<>> /\ line[1] = "----"

\* the try block on one data line: the appends happen in the order years,
\* rms_tas, rms_pr, ess and the first conversion that raises ends the block;
\* what was appended before it stays.  from is the line number, kept beside
\* each list as the history of where its entries came from.
try_block(diagnostics, from, parts, i) ==
    IF Len(parts) < 4
    THEN [diagnostics |-> diagnostics, from |-> from]
    ELSE LET ok1 == ~int_raises(parts[1])
             ok2 == ok1 /\ ~float_raises(parts[2])
             ok3 == ok2 /\ ~float_raises(parts[3])
             ok4 == ok3 /\ ~float_raises(parts[4])
         IN  [diagnostics |->
                [ensemble_size |-> diagnostics.ensemble_size,
                 years |-> IF ok1 THEN Append(diagnostics.years, int(parts[1]))
                           ELSE diagnostics.years,
                 rms_tas |-> IF ok2 THEN Append(diagnostics.rms_tas, float(parts[2]))
                             ELSE diagnostics.rms_tas,
                 rms_pr |-> IF ok3 THEN Append(diagnostics.rms_pr, float(parts[3]))
                            ELSE diagnostics.rms_pr,
                 ess |-> IF ok4 THEN Append(diagnostics.ess, float(parts[4]))
                         ELSE diagnostics.ess],
              from |->
                [years |-> IF ok1 THEN Append(from.years, i) ELSE from.years,
                 rms_tas |-> IF ok2 THEN Append(from.rms_tas, i) ELSE from.rms_tas,
                 rms_pr |-> IF ok3 THEN Append(from.rms_pr, i) ELSE from.rms_pr,
                 ess |-> IF ok4 THEN Append(from.ess, i) ELSE from.ess]]

NoLists == [years |-> <<>>, rms_tas |-> <<>>, rms_pr |-> <<>>, ess |-> <<>>]

\* files.exists: final_diagnostics.txt is there; args.lines: what it holds
DiagInit ==
    /\ pc = "exists"
    /\ args \in [ensemble_size : EnsembleSizes, lines : SeqsUpTo(DiagLines, MaxLines)]
    /\ files \in [exists : BOOLEAN]
    /\ ret = <<>>
    /\ loc = [data_started |-> FALSE, i |-> 1]
    /\ snap = NoLists
    /\ rng = 0
    /\ year = 0
    /\ err = "none"

\* if not os.path.exists(final_diag_file): return None
FileMissing ==
    /\ pc = "exists"
    /\ ~files.exists
    /\ pc' = "returned_none"
    /\ UNCHANGED <<rng, args, ret, year, loc, files, snap, err>>

\* the empty dictionary, readlines, data_started = False
ReadLines ==
    /\ pc = "exists"
    /\ files.exists
    /\ ret' = [ensemble_size |-> args.ensemble_size] @@ NoLists
    /\ pc' = "for"
    /\ UNCHANGED <<rng, args, year, loc, files, snap, err>>

\* a line that holds the header: data_started = True; continue
HeaderSeen ==
    /\ pc = "for"
    /\ loc.i <= Len(args.lines)
    /\ has_header(args.lines[loc.i])
    /\ loc' = [data_started |-> TRUE, i |-> loc.i + 1]
    /\ UNCHANGED <<rng, pc, args, ret, year, files, snap, err>>

\* a line before the header, an empty line or a rule: nothing is done
SkipLine ==
    /\ pc = "for"
    /\ loc.i <= Len(args.lines)
    /\ LET line == args.lines[loc.i]
       IN  /\ ~has_header(line)
           /\ ~(loc.data_started /\ line # <<>> /\ ~starts_with_rule(line))
    /\ loc' = [loc EXCEPT !.i = @ + 1]
    /\ UNCHANGED <<rng, pc, args, ret, year, files, snap, err>>

\* a line of the data section: the try block, ValueError and IndexError
\* caught by continue
DataLine ==
    /\ pc = "for"
    /\ loc.i <= Len(args.lines)
    /\ LET line == args.lines[loc.i]
       IN  /\ ~has_header(line)
           /\ loc.data_started /\ line # <<>> /\ ~starts_with_rule(line)
           /\ LET r == try_block(ret, snap, line, loc.i)
              IN  /\ ret' = r.diagnostics
                  /\ snap' = r.from
    /\ loc' = [loc EXCEPT !.i = @ + 1]
    /\ UNCHANGED <<rng, pc, args, year, files, err>>

\* return diagnostics
ReturnDiagnostics ==
    /\ pc = "for"
    /\ loc.i > Len(args.lines)
    /\ pc' = "returned"
    /\ UNCHANGED <<rng, args, ret, year, loc, files, snap, err>>

DiagNext ==
    \/ FileMissing
    \/ ReadLines
    \/ HeaderSeen
    \/ SkipLine
    \/ DataLine
    \/ ReturnDiagnostics

SpecDiag == DiagInit /\ [][DiagNext]_vars

----------------------------------------------------------------------------
(* generate_synthetic_observations: one run, statement by statement *)

NTimes == {2, 3}

Ranks == {2, 3, 4}

StartYears == (0 - 1) .. MaxStart

FileYears == (0 - 1) .. (MaxStart + MaxYears)

NoFile == [exists |-> FALSE, closed |-> FALSE, lines |-> <<>>]

NoRow == [year |-> 0, lon |-> 0, lat |-> 0, variable |-> "",
          true_value |-> 0, observed_value |-> 0, error |-> 0]

Line(kind, n, row) == [kind |-> kind, n |-> n, row |-> row]

\* pd.DataFrame({...}): one row per location, the scalars repeated
data_frame(y, lons, lats, variable, true_value, observed_value, error) ==
    [k \in DOMAIN lons |->
        [year |-> y, lon |-> lons[k], lat |-> lats[k], variable |-> variable,
         true_value |-> true_value[k], observed_value |-> observed_value[k],
         error |-> error[k]]]

\* obs_df.to_csv(output_file, index=False): the column names, then the rows
csv_lines(obs_df) ==
    <<Line("columns", 0, NoRow)>> \o [k \in DOMAIN obs_df |-> Line("row", 0, obs_df[k])]

\* a faulty variant: the count line ends in one newline, no blank line follows
pdaf_header_noblank(obs_df) ==
    <<Line("comment", 0, NoRow), Line("comment", 0, NoRow),
      Line("comment", 0, NoRow), Line("count", Len(obs_df), NoRow)>>

\* the four f.write calls of the header; the last one ends in "\n\n"
pdaf_header(obs_df) ==
    <<Line("comment", 0, NoRow), Line("comment", 0, NoRow),
      Line("comment", 0, NoRow), Line("count", Len(obs_df), NoRow),
      Line("blank", 0, NoRow)>>

\* the formatted line of a row: year, lon, lat, variable, observed_value and
\* error; true_value is not written
pdaf_line(row) == Line("data", 0, [row EXCEPT !.true_value = 0])

\* a faulty variant: the output file of the year is opened before pr is sampled
next_step_open_early(p) ==
    CASE p = "tas_locations" -> "pr_locations"
      [] p = "pr_locations" -> "sample_tas"
      [] p = "sample_tas" -> "csv_open"
      [] p = "csv_open" -> "sample_pr"
      [] p = "sample_pr" -> "noise_tas"
      [] p = "noise_tas" -> "noise_pr"
      [] p = "noise_pr" -> "concat"
      [] p = "concat" -> "csv_write"
      [] p = "csv_write" -> "pdaf_open"
      [] p = "pdaf_open" -> "pdaf_header"
      [] p = "pdaf_header" -> "pdaf_rows"
      [] p = "pdaf_rows" -> "pdaf_close"
      [] p = "pdaf_close" -> "loop"

\* the order of the statements of the loop body
next_step(p) ==
    CASE p = "tas_locations" -> "pr_locations"
      [] p = "pr_locations" -> "sample_tas"
      [] p = "sample_tas" -> "sample_pr"
      [] p = "sample_pr" -> "noise_tas"
      [] p = "noise_tas" -> "noise_pr"
      [] p = "noise_pr" -> "concat"
      [] p = "concat" -> "csv_open"
      [] p = "csv_open" -> "csv_write"
      [] p = "csv_write" -> "pdaf_open"
      [] p = "pdaf_open" -> "pdaf_header"
      [] p = "pdaf_header" -> "pdaf_rows"
      [] p = "pdaf_rows" -> "pdaf_close"
      [] p = "pdaf_close" -> "loop"

\* seed=year*2 of the tas network
tas_seed(y) == y * 2

\* a faulty variant: pr is seeded like tas
pr_seed_shared(y) == y * 2

\* seed=year*2+1 of the pr network
pr_seed(y) == y * 2 + 1

\* a faulty variant: range(start_year, start_year + n_years + 1)
in_range_inclusive(y, start_year, n_years) == y <= start_year + n_years

\* year in range(start_year, start_year + n_years), year counting up from
\* start_year
in_range(y, start_year, n_years) == y < start_year + n_years

NoLocals ==
    [lon_min |-> 0, lon_max |-> 0, lat_min |-> 0, lat_max |-> 0,
     tas_lons |-> <<>>, tas_lats |-> <<>>, pr_lons |-> <<>>, pr_lats |-> <<>>,
     tas_true |-> <<>>, pr_true |-> <<>>,
     tas_obs |-> <<>>, tas_errors |-> <<>>, pr_obs |-> <<>>, pr_errors |-> <<>>,
     obs_df |-> <<>>, row |-> 1]

\* the records of year y as the loop body computes them when the generator
\* is in state st as the iteration begins: the observation set of the first
\* year of a run that starts at y
year_records(a, y, st) ==
    LET nd == a.nature_data
        lon_range == <<SeqMin(nd.lon), SeqMax(nd.lon)>>
        lat_range == <<SeqMin(nd.lat), SeqMax(nd.lat)>>
        tas_loc == generate_random_locations(a.n_obs_tas, lon_range, lat_range,
                                             SomeSeed(tas_seed(y)), st)
        pr_loc == generate_random_locations(a.n_obs_pr, lon_range, lat_range,
                                            SomeSeed(pr_seed(y)), tas_loc.rng)
        tas_true == sample_nature_run(nd, tas_loc.lons, tas_loc.lats, "tas", y).values
        pr_true == sample_nature_run(nd, pr_loc.lons, pr_loc.lats, "pr", y).values
        tas_noise == add_observation_noise(tas_true, "tas", pr_loc.rng)
        pr_noise == add_observation_noise(pr_true, "pr", tas_noise.rng)
    IN  data_frame(y, tas_loc.lons, tas_loc.lats, "tas", tas_true,
                   tas_noise.noisy_values, tas_noise.errors)
        \o data_frame(y, pr_loc.lons, pr_loc.lats, "pr", pr_true,
                      pr_noise.noisy_values, pr_noise.errors)

RunInit ==
    /\ pc = "makedirs"
    /\ rng \in RngStates
    /\ \E lon \in LonAxes, lat \in LatAxes, rt \in Ranks, rp \in Ranks, nt \in NTimes,
          n_obs_tas \in 0 .. MaxObs, n_obs_pr \in 0 .. MaxObs,
          start_year \in StartYears, n_years \in 0 .. MaxYears :
            args = [nature_data |->
                        [lon |-> lon, lat |-> lat,
                         tas |-> [name |-> "tas", rank |-> rt, ntime |-> nt],
                         pr |-> [name |-> "pr", rank |-> rp, ntime |-> nt]],
                    n_obs_tas |-> n_obs_tas, n_obs_pr |-> n_obs_pr,
                    start_year |-> start_year, n_years |-> n_years]
    /\ ret = <<>>
    /\ year = 0
    /\ loc = NoLocals
    /\ files = [csv |-> [y \in FileYears |-> NoFile],
                pdaf |-> [y \in FileYears |-> NoFile],
                summary |-> NoFile]
    /\ snap = files
    /\ err = "none"

Raise(e) ==
    /\ pc' = "raised"
    /\ err' = e

\* os.makedirs and the grid bounds
MakeDirs ==
    /\ pc = "makedirs"
    /\ loc' = [loc EXCEPT !.lon_min = SeqMin(args.nature_data.lon),
                          !.lon_max = SeqMax(args.nature_data.lon),
                          !.lat_min = SeqMin(args.nature_data.lat),
                          !.lat_max = SeqMax(args.nature_data.lat)]
    /\ year' = args.start_year
    /\ pc' = "loop"
    /\ UNCHANGED <<rng, args, ret, files, snap, err>>

\* for year in range(start_year, start_year + n_years)
LoopHead ==
    /\ pc = "loop"
    /\ IF in_range(year, args.start_year, args.n_years)
       THEN /\ pc' = "tas_locations"
            /\ snap' = files
       ELSE /\ pc' = "summary"
            /\ snap' = snap
    /\ UNCHANGED <<rng, args, ret, year, loc, files, err>>

TasLocations ==
    /\ pc = "tas_locations"
    /\ LET r == generate_random_locations(args.n_obs_tas, <<loc.lon_min, loc.lon_max>>,
                    <<loc.lat_min, loc.lat_max>>, SomeSeed(tas_seed(year)), rng)
       IN  IF r.raised # "none"
           THEN /\ Raise(r.raised)
                /\ UNCHANGED <<rng, ret, loc>>
           ELSE /\ loc' = [loc EXCEPT !.tas_lons = r.lons, !.tas_lats = r.lats]
                /\ rng' = r.rng
                /\ ret' = Append(ret, [year |-> year, variable |-> "tas",
                                       seed |-> tas_seed(year)])
                /\ pc' = next_step(pc)
                /\ err' = err
    /\ UNCHANGED <<args, year, files, snap>>

PrLocations ==
    /\ pc = "pr_locations"
    /\ LET r == generate_random_locations(args.n_obs_pr, <<loc.lon_min, loc.lon_max>>,
                    <<loc.lat_min, loc.lat_max>>, SomeSeed(pr_seed(year)), rng)
       IN  IF r.raised # "none"
           THEN /\ Raise(r.raised)
                /\ UNCHANGED <<rng, ret, loc>>
           ELSE /\ loc' = [loc EXCEPT !.pr_lons = r.lons, !.pr_lats = r.lats]
                /\ rng' = r.rng
                /\ ret' = Append(ret, [year |-> year, variable |-> "pr",
                                       seed |-> pr_seed(year)])
                /\ pc' = next_step(pc)
                /\ err' = err
    /\ UNCHANGED <<args, year, files, snap>>

SampleTas ==
    /\ pc = "sample_tas"
    /\ LET r == sample_nature_run(args.nature_data, loc.tas_lons, loc.tas_lats,
                                  "tas", year)
       IN  IF r.raised # "none"
           THEN /\ Raise(r.raised)
                /\ loc' = loc
           ELSE /\ loc' = [loc EXCEPT !.tas_true = r.values]
                /\ pc' = next_step(pc)
                /\ err' = err
    /\ UNCHANGED <<rng, args, ret, year, files, snap>>

SamplePr ==
    /\ pc = "sample_pr"
    /\ LET r == sample_nature_run(args.nature_data, loc.pr_lons, loc.pr_lats,
                                  "pr", year)
       IN  IF r.raised # "none"
           THEN /\ Raise(r.raised)
                /\ loc' = loc
           ELSE /\ loc' = [loc EXCEPT !.pr_true = r.values]
                /\ pc' = next_step(pc)
                /\ err' = err
    /\ UNCHANGED <<rng, args, ret, year, files, snap>>

NoiseTas ==
    /\ pc = "noise_tas"
    /\ LET r == add_observation_noise(loc.tas_true, "tas", rng)
       IN  IF r.raised # "none"
           THEN /\ Raise(r.raised)
                /\ UNCHANGED <<rng, loc>>
           ELSE /\ loc' = [loc EXCEPT !.tas_obs = r.noisy_values,
                                      !.tas_errors = r.errors]
                /\ rng' = r.rng
                /\ pc' = next_step(pc)
                /\ err' = err
    /\ UNCHANGED <<args, ret, year, files, snap>>

NoisePr ==
    /\ pc = "noise_pr"
    /\ LET r == add_observation_noise(loc.pr_true, "pr", rng)
       IN  IF r.raised # "none"
           THEN /\ Raise(r.raised)
                /\ UNCHANGED <<rng, loc>>
           ELSE /\ loc' = [loc EXCEPT !.pr_obs = r.noisy_values,
                                      !.pr_errors = r.errors]
                /\ rng' = r.rng
                /\ pc' = next_step(pc)
                /\ err' = err
    /\ UNCHANGED <<args, ret, year, files, snap>>

\* tas_df, pr_df and obs_df = pd.concat([tas_df, pr_df], ignore_index=True)
Concat ==
    /\ pc = "concat"
    /\ LET tas_df == data_frame(year, loc.tas_lons, loc.tas_lats, "tas",
                                loc.tas_true, loc.tas_obs, loc.tas_errors)
           pr_df == data_frame(year, loc.pr_lons, loc.pr_lats, "pr",
                               loc.pr_true, loc.pr_obs, loc.pr_errors)
       IN  loc' = [loc EXCEPT !.obs_df = tas_df \o pr_df, !.row = 1]
    /\ pc' = next_step(pc)
    /\ UNCHANGED <<rng, args, ret, year, files, snap, err>>

\* to_csv opens observations_year_YYYY.csv for writing
CsvOpen ==
    /\ pc = "csv_open"
    /\ files' = [files EXCEPT !.csv[year] =
                    [exists |-> TRUE, closed |-> FALSE, lines |-> <<>>]]
    /\ pc' = next_step(pc)
    /\ UNCHANGED <<rng, args, ret, year, loc, snap, err>>

\* to_csv writes the table and closes the file
CsvWrite ==
    /\ pc = "csv_write"
    /\ files' = [files EXCEPT !.csv[year] =
                    [exists |-> TRUE, closed |-> TRUE, lines |-> csv_lines(loc.obs_df)]]
    /\ pc' = next_step(pc)
    /\ UNCHANGED <<rng, args, ret, year, loc, snap, err>>

\* save_pdaf_format: with open(filename, 'w') as f
PdafOpen ==
    /\ pc = "pdaf_open"
    /\ files' = [files EXCEPT !.pdaf[year] =
                    [exists |-> TRUE, closed |-> FALSE, lines |-> <<>>]]
    /\ pc' = next_step(pc)
    /\ UNCHANGED <<rng, args, ret, year, loc, snap, err>>

PdafHeader ==
    /\ pc = "pdaf_header"
    /\ files' = [files EXCEPT !.pdaf[year].lines = @ \o pdaf_header(loc.obs_df)]
    /\ pc' = next_step(pc)
    /\ UNCHANGED <<rng, args, ret, year, loc, snap, err>>

\* for _, row in obs_df.iterrows(): one f.write per row
PdafRow ==
    /\ pc = "pdaf_rows"
    /\ IF loc.row <= Len(loc.obs_df)
       THEN /\ files' = [files EXCEPT !.pdaf[year].lines =
                            Append(@, pdaf_line(loc.obs_df[loc.row]))]
            /\ loc' = [loc EXCEPT !.row = @ + 1]
            /\ pc' = pc
       ELSE /\ pc' = next_step(pc)
            /\ UNCHANGED <<files, loc>>
    /\ UNCHANGED <<rng, args, ret, year, snap, err>>

\* the end of the with block closes the file; the year is done
PdafClose ==
    /\ pc = "pdaf_close"
    /\ files' = [files EXCEPT !.pdaf[year].closed = TRUE]
    /\ year' = year + 1
    /\ pc' = next_step(pc)
    /\ UNCHANGED <<rng, args, ret, loc, snap, err>>

\* create_summary_file
Summary ==
    /\ pc = "summary"
    /\ files' = [files EXCEPT !.summary =
                    [exists |-> TRUE, closed |-> TRUE,
                     lines |-> <<Line("n_years", args.n_years, NoRow),
                                 Line("n_obs_tas", args.n_obs_tas, NoRow),
                                 Line("n_obs_pr", args.n_obs_pr, NoRow),
                                 Line("total", args.n_obs_tas + args.n_obs_pr, NoRow)>>]]
    /\ pc' = "done"
    /\ UNCHANGED <<rng, args, ret, year, loc, snap, err>>

IoSteps == {"makedirs", "csv_open", "csv_write", "pdaf_open", "pdaf_header",
            "pdaf_rows", "pdaf_close", "summary"}

\* a file operation fails (disk full, permissions, I/O error): OSError
\* leaves the directory as the operations before it left it
IoFail ==
    /\ pc \in IoSteps
    /\ Raise(OSError)
    /\ UNCHANGED <<rng, args, ret, year, loc, files, snap>>

RunNext ==
    \/ MakeDirs
    \/ LoopHead
    \/ TasLocations
    \/ PrLocations
    \/ SampleTas
    \/ SamplePr
    \/ NoiseTas
    \/ NoisePr
    \/ Concat
    \/ CsvOpen
    \/ CsvWrite
    \/ PdafOpen
    \/ PdafHeader
    \/ PdafRow
    \/ PdafClose
    \/ Summary
    \/ IoFail

Spec == RunInit /\ [][RunNext]_vars

----------------------------------------------------------------------------
(* Properties of generate_random_locations, under SpecLoc *)

\* C1: two calls of generate_random_locations with the same seed, count and
\* bounding box return the same longitudes and the same latitudes, whatever
\* the generator state was before each call.
C1_SameArgumentsSameLocations ==
    (pc = "done" /\ args.seed.given) =>
        /\ ret[1].lons = ret[2].lons
        /\ ret[1].lats = ret[2].lats
        /\ Len(ret[1].lons) = args.n_obs
        /\ Len(ret[1].lats) = args.n_obs

\* the year-3 tas network (seed 6, one observation, the 2x2 grid) drawn twice
\* from different generator states
C1_Witness ==
    /\ pc = "done"
    /\ args.seed = SomeSeed(6)
    /\ args.n_obs = 1
    /\ args.lon_range = <<0, 180>>
    /\ args.lat_range = <<-45, 45>>
    /\ ret[1].before # ret[2].before
    /\ ret[1].lons = ret[2].lons
    /\ ret[1].lats = ret[2].lats

----------------------------------------------------------------------------
(* Properties of find_nearest_grid_point, under SpecGrid *)

Wrapped(lon) == IF lon < 0 THEN lon + 360 ELSE lon

FirstMinimiser(axis, x, i) ==
    /\ i \in DOMAIN axis
    /\ \A k \in DOMAIN axis : Abs(axis[i] - x) <= Abs(axis[k] - x)
    /\ \A k \in DOMAIN axis : k < i => Abs(axis[k] - x) > Abs(axis[i] - x)

EdgeCell(axis, x, i) ==
    /\ x > SeqMax(axis) => axis[i] = SeqMax(axis)
    /\ x < SeqMin(axis) => axis[i] = SeqMin(axis)

\* C3: the call always returns; i is the first index minimising
\* |model_lon[i] - lon'| with lon' the query longitude plus 360 when negative,
\* j the first index minimising |model_lat[j] - lat|; a query beyond an end of
\* an axis gets the cell at that end; on lon = [0, 180], lat = [-45, 45] the
\* query (170, 40) gets the second cell of both axes.
C3_NearestFirstMinimiser ==
    pc = "done" =>
        /\ FirstMinimiser(args.model_lon, Wrapped(args.obs_lon), ret[1])
        /\ FirstMinimiser(args.model_lat, args.obs_lat, ret[2])
        /\ EdgeCell(args.model_lon, Wrapped(args.obs_lon), ret[1])
        /\ EdgeCell(args.model_lat, args.obs_lat, ret[2])
        /\ ( /\ args.model_lon = <<0, 180>>
             /\ args.model_lat = <<-45, 45>>
             /\ args.obs_lon = 170
             /\ args.obs_lat = 40 ) => ret = <<2, 2>>

C3_Witness ==
    /\ pc = "done"
    /\ args.model_lon = <<0, 180>>
    /\ args.model_lat = <<-45, 45>>
    /\ args.obs_lon = 170
    /\ args.obs_lat = 40
    /\ ret = <<2, 2>>

\* C4 as claimed: for every negative query longitude q the queries q and
\* q + 360 get the same index pair.
C4_EveryNegativeLongitude ==
    (pc = "done" /\ args.obs_lon < 0) =>
        ret = find_nearest_grid_point(args.obs_lon + 360, args.obs_lat,
                                      args.model_lon, args.model_lat)

\* C4 as amended: for every query longitude q with -360 <= q < 0 the queries
\* q and q + 360 get the same index pair.
C4_OneTurnNegativeLongitude ==
    (pc = "done" /\ args.obs_lon < 0 /\ args.obs_lon >= 0 - 360) =>
        ret = find_nearest_grid_point(args.obs_lon + 360, args.obs_lat,
                                      args.model_lon, args.model_lat)

\* -10 on a 0..360 axis gets the cell that 350 gets, the last one
C4_Witness ==
    /\ pc = "done"
    /\ args.obs_lon = 0 - 10
    /\ args.model_lon = <<0, 90, 180, 270>>
    /\ ret[1] = 4
    /\ ret = find_nearest_grid_point(350, args.obs_lat, args.model_lon, args.model_lat)

\* C5 as claimed: a query longitude inside the range of the axis, whatever
\* the convention of the axis, gets a cell whose longitude is nearest to it.
C5_NearestInAxisConvention ==
    ( /\ pc = "done"
      /\ args.obs_lon >= SeqMin(args.model_lon)
      /\ args.obs_lon <= SeqMax(args.model_lon) ) =>
        \A k \in DOMAIN args.model_lon :
            Abs(args.model_lon[ret[1]] - args.obs_lon)
                <= Abs(args.model_lon[k] - args.obs_lon)

----------------------------------------------------------------------------
(* Properties of add_observation_noise, under SpecNoise *)

\* C2 as claimed, for two observations or more: for both tags the call
\* returns as many noisy values as it was given and takes one number from the
\* generator per observation, never one number shared by all of them.
C2_OneDrawPerObservation ==
    (pc = "done" /\ Len(args.values) >= 2) =>
        /\ Len(ret.noisy_values) = Len(args.values)
        /\ ret.draws = Len(args.values)
        /\ rng = RngAfter(args.before, Len(args.values))

\* C7: the errors are as many as the values; for tas each is 1.0; for pr each
\* is a tenth of the magnitude of its true value, so 1.0 for 10.0 and 0.0 for
\* 0.0, where the observed value is the true value; none is negative.
C7_ReportedErrors ==
    pc = "done" =>
        /\ Len(ret.errors) = Len(args.values)
        /\ \A k \in DOMAIN args.values :
            /\ ret.errors[k] >= 0
            /\ args.variable = "tas" => ret.errors[k] = Fx(1)
            /\ args.variable = "pr" =>
                /\ ret.errors[k] = Abs(args.values[k]) \div 10
                /\ args.values[k] = Fx(10) => ret.errors[k] = Fx(1)
                /\ args.values[k] = 0 =>
                    (ret.errors[k] = 0 /\ ret.noisy_values[k] = args.values[k])

\* pr with true values 10.0 and 0.0, the first one perturbed by its draw
C7_Witness ==
    /\ pc = "done"
    /\ args.variable = "pr"
    /\ args.values = <<Fx(10), 0>>
    /\ ret.errors = <<Fx(1), 0>>
    /\ ret.noisy_values[1] # args.values[1]
    /\ ret.noisy_values[2] = 0

----------------------------------------------------------------------------
(* Properties of the run, under Spec *)

Complete(f) == f.exists /\ f.closed

\* the positions of a year at which sample_nature_run has returned for tas
AfterSampleTas ==
    pc \in {"sample_pr", "noise_tas", "noise_pr", "concat", "csv_open", "csv_write",
            "pdaf_open", "pdaf_header", "pdaf_rows", "pdaf_close"}

\* the positions of a year at which sample_nature_run has returned for pr
AfterSamplePr == AfterSampleTas /\ pc # "sample_pr"

\* the cell a location resolves to, read at time index year and level 0
CellOf(variable, lons, lats, k) ==
    LET ij == find_nearest_grid_point(lons[k], lats[k], args.nature_data.lon,
                                      args.nature_data.lat)
    IN  IF args.nature_data[variable].rank = 3
        THEN FieldValue(variable, <<year, ij[2], ij[1]>>)
        ELSE FieldValue(variable, <<year, 0, ij[2], ij[1]>>)

SampledExactly(variable, lons, lats, values) ==
    /\ Len(values) = Len(lons)
    /\ \A k \in DOMAIN lons : values[k] = CellOf(variable, lons, lats, k)

DataLines(f) == {k \in DOMAIN f.lines : f.lines[k].kind = "data"}

\* C8: the filter-compatible file of a year that was processed to its end is
\* 4 comment lines (the last one stating the count), a blank line, and then
\* data lines only; the stated count is the number of data lines and equals
\* n_obs_tas + n_obs_pr; the tas lines come first; every line carries the year.
C8_PdafFileShape ==
    \A y \in FileYears :
        Complete(files.pdaf[y]) =>
            LET f == files.pdaf[y]
                n == Len(f.lines)
            IN  /\ n >= 5
                /\ \A k \in 1 .. 3 : f.lines[k].kind = "comment"
                /\ f.lines[4].kind = "count"
                /\ f.lines[5].kind = "blank"
                /\ DataLines(f) = 6 .. n
                /\ f.lines[4].n = Cardinality(DataLines(f))
                /\ f.lines[4].n = args.n_obs_tas + args.n_obs_pr
                /\ \A k \in 6 .. n :
                    /\ f.lines[k].row.year = y
                    /\ f.lines[k].row.variable =
                           IF k - 5 <= args.n_obs_tas THEN "tas" ELSE "pr"

\* a finished run of two years with two tas and one pr observation a year
C8_Witness ==
    /\ pc = "done"
    /\ args.n_years = 2
    /\ args.n_obs_tas = 2
    /\ args.n_obs_pr = 1
    /\ Complete(files.pdaf[args.start_year + 1])
    /\ Len(files.pdaf[args.start_year + 1].lines) = 8
    /\ files.pdaf[args.start_year + 1].lines[4].n = 3

\* C9 as claimed: wherever the run stops, every year has both of its files
\* complete or none of them.
C9_PairOrNothing ==
    pc \in {"done", "raised"} =>
        \A y \in FileYears :
            \/ Complete(files.csv[y]) /\ Complete(files.pdaf[y])
            \/ ~files.csv[y].exists /\ ~files.pdaf[y].exists

ConfigError == err \in {ValueError, IndexError}

\* C10: when the location, sampling or noise step of a year raises, the
\* directory is as it was when the year started: no file of that year or of a
\* later one, no summary, and the run has stopped in that year.
C10_ConfigErrorBeforeAnyFile ==
    ConfigError =>
        /\ pc = "raised"
        /\ files = snap
        /\ \A y \in FileYears :
            y >= year => ~files.csv[y].exists /\ ~files.pdaf[y].exists
        /\ ~files.summary.exists
        /\ \A k \in DOMAIN ret : ret[k].year <= year
        /\ ~ENABLED RunNext

\* the second year of a run fails in sampling (its time index is beyond the
\* time axis) after the first year was written
C10_Witness ==
    /\ ConfigError
    /\ year = args.start_year + 1
    /\ Complete(files.csv[args.start_year])
    /\ Complete(files.pdaf[args.start_year])
    /\ files = snap
    /\ ~files.csv[year].exists

----------------------------------------------------------------------------
(* The seeds of a run, under Spec *)

\* C11: every tas network of a run is drawn with seed 2 * year and every pr
\* network with seed 2 * year + 1, so the two networks of a year have
\* different seeds, and no two network draws of the run have the same seed.
C11_SeedsInjective ==
    /\ \A k \in DOMAIN ret :
        ret[k].seed = IF ret[k].variable = "tas"
                      THEN 2 * ret[k].year
                      ELSE 2 * ret[k].year + 1
    /\ \A k \in DOMAIN ret, l \in DOMAIN ret :
        (ret[k].year = ret[l].year /\ ret[k].variable # ret[l].variable)
            => ret[k].seed # ret[l].seed
    /\ \A k \in DOMAIN ret, l \in DOMAIN ret :
        k # l => /\ ret[k].seed # ret[l].seed
                 /\ <<ret[k].year, ret[k].variable>> # <<ret[l].year, ret[l].variable>>

\* two years processed: four network draws with four seeds
C11_Witness ==
    /\ pc = "done"
    /\ args.n_years = 2
    /\ Len(ret) = 4
    /\ Cardinality({ret[k].seed : k \in DOMAIN ret}) = 4
    /\ ret[1].variable = "tas"
    /\ ret[2].variable = "pr"
    /\ ret[2].seed = ret[1].seed + 1

----------------------------------------------------------------------------
(* The years of a run do not depend on the years before them, under Spec *)

\* C12: the records of a year (locations, true values, observed values,
\* errors) as the loop body has just assembled them, whether the year is the
\* first of the run or comes after others, are those of a run that starts at
\* that year, whatever state the generator is in when that run starts; and
\* they are the rows of the detailed file once it is written.
C12_YearIndependentOfHistory ==
    /\ pc = "csv_open" =>
        \A st \in RngStates : year_records(args, year, st) = loc.obs_df
    /\ pc = "pdaf_open" =>
        /\ Complete(files.csv[year])
        /\ Len(files.csv[year].lines) = Len(loc.obs_df) + 1
        /\ \A k \in DOMAIN loc.obs_df :
            files.csv[year].lines[k + 1].row = loc.obs_df[k]

\* the second year of a run, after the first one was written: three
\* records, those of a run that starts at this year
C12_Witness ==
    /\ pc = "csv_open"
    /\ year = args.start_year + 1
    /\ Complete(snap.pdaf[args.start_year])
    /\ args.n_obs_tas = 2
    /\ args.n_obs_pr = 1
    /\ Len(loc.obs_df) = 3
    /\ loc.obs_df[1].observed_value # loc.obs_df[1].true_value
    /\ loc.obs_df = year_records(args, year, 0)
    /\ loc.obs_df = year_records(args, year, RngMod - 1)

----------------------------------------------------------------------------
(* The order of a run, under Spec *)

RunYears == args.start_year .. (args.start_year + args.n_years - 1)

Stopped == pc \in {"done", "raised"}

\* the statements left in the loop body, the rows not yet written counted
\* one by one (there are at most 2 * MaxObs of them)
StepsToGo(p) ==
    CASE p = "loop" -> 15 + 2 * MaxObs
      [] p = "tas_locations" -> 14 + 2 * MaxObs
      [] p = "pr_locations" -> 13 + 2 * MaxObs
      [] p = "sample_tas" -> 12 + 2 * MaxObs
      [] p = "sample_pr" -> 11 + 2 * MaxObs
      [] p = "noise_tas" -> 10 + 2 * MaxObs
      [] p = "noise_pr" -> 9 + 2 * MaxObs
      [] p = "concat" -> 8 + 2 * MaxObs
      [] p = "csv_open" -> 7 + 2 * MaxObs
      [] p = "csv_write" -> 6 + 2 * MaxObs
      [] p = "pdaf_open" -> 5 + 2 * MaxObs
      [] p = "pdaf_header" -> 4 + 2 * MaxObs
      [] p = "pdaf_rows" -> 3 + (Len(loc.obs_df) + 1 - loc.row)
      [] p = "pdaf_close" -> 2
      [] p = "summary" -> 1
      [] OTHER -> 0

\* a number that bounds the steps the run has left
Remaining ==
    LET perYear == 16 + 2 * MaxObs
    IN  IF pc = "makedirs" THEN (args.n_years + 1) * perYear + 16
        ELSE IF Stopped THEN 0
        ELSE (args.start_year + args.n_years - year) * perYear + StepsToGo(pc)

C13_State ==
    \* the network draws are those of the years from start_year on, in
    \* ascending order, tas then pr, each year once
    /\ \A k \in DOMAIN ret :
        /\ ret[k].year = args.start_year + ((k - 1) \div 2)
        /\ ret[k].year \in RunYears
        /\ ret[k].variable = IF k % 2 = 1 THEN "tas" ELSE "pr"
    \* no file of a year outside the run
    /\ \A y \in FileYears :
        (files.csv[y].exists \/ files.pdaf[y].exists) => y \in RunYears
    \* a finished run has processed every year and written the summary
    /\ pc = "done" =>
        /\ err = "none"
        /\ Len(ret) = 2 * args.n_years
        /\ year = args.start_year + args.n_years
        /\ Complete(files.summary)
    \* the summary exists only after both files of every year are written,
    \* and never after a failure
    /\ files.summary.exists =>
        /\ pc = "done"
        /\ \A y \in RunYears : Complete(files.csv[y]) /\ Complete(files.pdaf[y])
    /\ pc = "raised" => err # "none"
    \* the run goes on until it stops, and the steps it has left are counted
    /\ Remaining >= 0
    /\ Stopped <=> Remaining = 0
    /\ ~Stopped => ENABLED RunNext

C13_Step ==
    \* every step brings the end nearer
    /\ Remaining' < Remaining
    \* the years go up by one, when the second file of a year is closed
    /\ pc # "makedirs" =>
        \/ year' = year
        \/ year' = year + 1 /\ pc = "pdaf_close" /\ Complete(files'.pdaf[year])
                            /\ Complete(files'.csv[year])
    \* a file that is complete is not written again
    /\ \A y \in FileYears :
        /\ Complete(files.csv[y]) => files'.csv[y] = files.csv[y]
        /\ Complete(files.pdaf[y]) => files'.pdaf[y] = files.pdaf[y]
    \* the summary is written once, by the statement after the loop
    /\ files'.summary # files.summary =>
        /\ ~files.summary.exists
        /\ pc = "summary"
        /\ pc' = "done"
        /\ Complete(files'.summary)

\* C13: a run processes the years start_year .. start_year + n_years - 1 in
\* ascending order, each once, and comes to an end; the summary is written
\* once, after both files of every year are written, and not at all when a
\* year failed.
C13_YearsInOrderThenSummary == []C13_State /\ [][C13_Step]_vars

\* a run of two years has ended: four draws, four files, then the summary
C13_Witness ==
    /\ pc = "done"
    /\ args.n_years = 2
    /\ Len(ret) = 4
    /\ ret[1].year = args.start_year
    /\ ret[3].year = args.start_year + 1
    /\ \A y \in RunYears : Complete(files.csv[y]) /\ Complete(files.pdaf[y])
    /\ Complete(files.summary)
    /\ Remaining = 0

-----------------------------------------------------------------------------
(* Unknown variable tags, under SpecNoise *)

KnownTags == {"tas", "pr"}

\* C14: a call of add_observation_noise with a tag other than 'tas' and 'pr'
\* raises the configuration error (ValueError) and returns no values and no
\* errors; the error comes before the random draw, so no number was taken
\* from the generator and its state is the one before the call; the input
\* values are the ones passed in.  A call with a known tag never raises.
C14_UnknownTagRaisesBeforeDraw ==
    /\ (pc # "call" /\ args.variable \notin KnownTags) =>
            /\ pc = "raised"
            /\ ret.raised = ValueError
            /\ ret.noisy_values = <<>>
            /\ ret.errors = <<>>
            /\ ret.draws = 0
            /\ ret.rng = args.before
            /\ rng = args.before
            /\ args.values \in SeqsUpTo(TrueValues, MaxObs)
    /\ pc = "raised" => args.variable \notin KnownTags
    /\ (pc # "call" /\ args.variable \in KnownTags) =>
            /\ pc = "done"
            /\ ret.raised = "none"
            /\ rng = RngAfter(args.before, ret.draws)

C14_Witness ==
    /\ pc = "raised"
    /\ args.variable = "sst"
    /\ Len(args.values) = 2
    /\ args.before = 5
    /\ rng = 5
    /\ ret.raised = ValueError
    /\ ret.noisy_values = <<>>

-----------------------------------------------------------------------------
(* The lists of the diagnostics dictionary, under SpecDiag *)

\* a data line whose four columns all parse
WellFormed(line) ==
    /\ Len(line) >= 4
    /\ ~int_raises(line[1])
    /\ \A c \in 2 .. 4 : ~float_raises(line[c])

\* C15: when load_osse_diagnostics has parsed a file, the lists years,
\* rms_tas, rms_pr and ess have equal length, entry k of each list comes from
\* the same input line, and a malformed line (fewer than four fields, or a
\* field that does not parse) has contributed to none of them.
C15_ListsAligned ==
    pc = "returned" =>
        /\ Len(ret.rms_tas) = Len(ret.years)
        /\ Len(ret.rms_pr) = Len(ret.years)
        /\ Len(ret.ess) = Len(ret.years)
        /\ snap.rms_tas = snap.years
        /\ snap.rms_pr = snap.years
        /\ snap.ess = snap.years
        /\ \A k \in DOMAIN snap.years : WellFormed(args.lines[snap.years[k]])

=============================================================================
